---- MODULE Spec2Model ----
(***************************************************************************)
(* Model of the "Circle Window" frame of src/src/main.cpp: the epicycle    *)
(* chain, the plotted value with its pole guard and clamp, and the rolling *)
(* sample buffer wave_data with the waveform line loop.                    *)
(*                                                                         *)
(* float values are fixed-point integers counting thousandths (Unit), so   *)
(* that epsilon = 0.001f is one step and offsets inside the pole window    *)
(* other than exactly zero exist.  Products and quotients truncate toward  *)
(* zero and saturate at FMax, which stands for every magnitude beyond the  *)
(* modelled range (including the IEEE infinity of x / 0).                  *)
(***************************************************************************)
EXTENDS Integers, Sequences, FiniteSets

VARIABLES
    show_circle_window,   \* bool show_circle_window            (line 116)
    scale,                \* static float scale                 (line 181)
    num_circles,          \* static int num_circles             (line 183)
    func_type,            \* static int func_type               (line 185)
    wave_data,            \* static std::vector<float> wave_data (line 253)
    time,                 \* ImGui::GetTime(), in eighths of a turn
    avail_width,          \* ImGui::GetContentRegionAvail().x
    cursor,               \* ImGui::GetCursorScreenPos()
    edits,                \* number of user interactions so far
    frame                 \* the locals of the last frame's circle-window block

vars == <<show_circle_window, scale, num_circles, func_type, wave_data,
          time, avail_width, cursor, edits, frame>>

-----------------------------------------------------------------------------
(* Bounds of the exploration *)

MaxTime == 13        \* frames rendered in one run
MaxEdits == 2        \* user interactions (clicks, drags, resizes) in one run
MaxToggles == 3      \* show/hide interactions in a run of SpecShow
MaxCircles == 2      \* largest "Num Circles" value tried (slider: 1..360)

-----------------------------------------------------------------------------
(* float arithmetic *)

Unit == 1000
FMax == 1000000000
NaN == FMax + 1

Abs(x) == IF x < 0 THEN -x ELSE x
Sgn(x) == IF x < 0 THEN -1 ELSE 1

Sat(x) == IF x > FMax THEN FMax ELSE x

\* a * b
FMul(a, b) ==
    IF a = NaN \/ b = NaN THEN NaN
    ELSE LET ah == Abs(a) \div Unit
             al == Abs(a) % Unit
             bh == Abs(b) \div Unit
             bl == Abs(b) % Unit
         IN  IF ah > 0 /\ Abs(b) > FMax \div ah
             THEN Sgn(a) * Sgn(b) * FMax
             ELSE Sgn(a) * Sgn(b)
                    * Sat(ah * Abs(b) + al * bh + ((al * bl) \div Unit))

\* a / b; b = 0 gives the IEEE results (an infinity, or NaN for 0 / 0)
FDiv(a, b) ==
    IF a = NaN \/ b = NaN THEN NaN
    ELSE IF b = 0 THEN (IF a = 0 THEN NaN ELSE Sgn(a) * FMax)
    ELSE LET q == Abs(a) \div Abs(b)
             r == Abs(a) % Abs(b)
         IN  IF q >= FMax \div Unit
             THEN Sgn(a) * Sgn(b) * FMax
             ELSE Sgn(a) * Sgn(b) * (q * Unit + ((r * Unit) \div Abs(b)))

\* (size_t)x for x >= 0
ToSizeT(x) == x \div Unit

\* cosf and sinf at k eighths of a turn
CosTab == <<1000, 707, 0, -707, -1000, -707, 0, 707>>
SinTab == <<0, 707, 1000, 707, 0, -707, -1000, -707>>

\* (float)(-time * n), reduced to 0..7 eighths of a turn
Angle(t, n) == (8 - ((t * n) % 8)) % 8
cosf(k) == CosTab[k + 1]
sinf(k) == SinTab[k + 1]

-----------------------------------------------------------------------------
(* The epicycle loop, lines 199-217 *)

Pi == 3142
BaseRadiusAtUnitScale == 60
CenterOffsetX == 100
CenterOffsetY == 150

\* lines 192-194
Center(cur, s) ==
    [x |-> cur.x + FMul(CenterOffsetX * Unit, s),
     y |-> cur.y + FMul(CenterOffsetY * Unit, s)]

\* line 201
BaseRadius(s) == FMul(BaseRadiusAtUnitScale * Unit, s)

\* mutation: every harmonic instead of the odd ones
HarmonicEvery(i) == i + 1

\* line 207
Harmonic(i) == 2 * i + 1

\* line 208
Radius(base_radius, i) ==
    FMul(base_radius, FDiv(4 * Unit, FMul(Harmonic(i) * Unit, Pi)))

\* lines 211-212
Tip(prev_pos, radius, angle) ==
    [x |-> prev_pos.x + FMul(radius, cosf(angle)),
     y |-> prev_pos.y + FMul(radius, sinf(angle))]

\* line 215
LastCircleCenter(prev_pos, current_pos) == prev_pos

\* mutation: the next circle is not moved to the tip
NextCenterStale(prev_pos, current_pos) == prev_pos

\* line 216
NextCenter(prev_pos, current_pos) == current_pos

\* one iteration of the loop body, lines 207-216; st holds the loop's locals
LoopBody(st, i, base_radius, t) ==
    LET radius == Radius(base_radius, i)
        angle == Angle(t, Harmonic(i))
        current_pos == Tip(st.prev_pos, radius, angle)
    IN  [prev_pos |-> NextCenter(st.prev_pos, current_pos),
         current_pos |-> current_pos,
         max_extent |-> st.max_extent + radius,
         last_circle_center |-> LastCircleCenter(st.prev_pos, current_pos),
         circles |-> Append(st.circles,
                            [center |-> st.prev_pos, radius |-> radius,
                             tip |-> current_pos])]

\* the loop condition, line 205
LoopGuard(i, n) == i < n

RECURSIVE EpicycleLoop(_, _, _, _, _)
EpicycleLoop(st, i, n, base_radius, t) ==
    IF LoopGuard(i, n)
    THEN EpicycleLoop(LoopBody(st, i, base_radius, t), i + 1, n, base_radius, t)
    ELSE st

\* lines 199-217
Epicycles(center, n, base_radius, t) ==
    EpicycleLoop([prev_pos |-> center, current_pos |-> center,
                  max_extent |-> 0, last_circle_center |-> center,
                  circles |-> <<>>],
                 0, n, base_radius, t)

-----------------------------------------------------------------------------
(* The plotted value, lines 233-250 *)

Epsilon == 1
PoleValue == 2000
ClampValue == 4000

\* mutation: the guard tests d != 0 instead of the epsilon window
PoleGuardExactZero(d) == Abs(d) > 0

\* fabsf(d) > epsilon
PoleGuard(d) == Abs(d) > Epsilon

\* (d > 0) ? 2000.0f : -2000.0f
Pole(d) == IF d > 0 THEN PoleValue * Unit ELSE -(PoleValue * Unit)

\* the switch, lines 238-246; div0 tells whether a division by zero was executed
Evaluate(f, dx, dy, base_radius) ==
    CASE f = 0 -> [val |-> dy, div0 |-> FALSE]
      [] f = 1 -> [val |-> dx, div0 |-> FALSE]
      [] f = 2 -> IF PoleGuard(dx)
                  THEN [val |-> FMul(FDiv(dy, dx), base_radius), div0 |-> dx = 0]
                  ELSE [val |-> Pole(dy), div0 |-> FALSE]
      [] f = 3 -> IF PoleGuard(dy)
                  THEN [val |-> FDiv(FMul(base_radius, base_radius), dy), div0 |-> dy = 0]
                  ELSE [val |-> Pole(dy), div0 |-> FALSE]
      [] f = 4 -> IF PoleGuard(dx)
                  THEN [val |-> FDiv(FMul(base_radius, base_radius), dx), div0 |-> dx = 0]
                  ELSE [val |-> Pole(dx), div0 |-> FALSE]
      [] f = 5 -> IF PoleGuard(dy)
                  THEN [val |-> FMul(FDiv(dx, dy), base_radius), div0 |-> dy = 0]
                  ELSE [val |-> Pole(dx), div0 |-> FALSE]
      [] OTHER -> [val |-> 0, div0 |-> FALSE]

\* mutation: the lower clamp of line 249 is missing
ClampUpperOnly(v) ==
    IF v = NaN THEN NaN
    ELSE IF v > ClampValue * Unit THEN ClampValue * Unit
    ELSE v

\* lines 248-249; both comparisons are false for NaN
Clamp(v) ==
    IF v = NaN THEN NaN
    ELSE IF v > ClampValue * Unit THEN ClampValue * Unit
    ELSE IF v < -(ClampValue * Unit) THEN -(ClampValue * Unit)
    ELSE v

-----------------------------------------------------------------------------
(* The graph, lines 253-276 *)

GraphGap == 50
MinGraphWidth == 10

\* line 255
GraphXStart(center, max_extent, s) ==
    center.x + max_extent + FMul(GraphGap * Unit, s)

\* mutation: the clamp of line 258 is missing
GraphWidthUnclamped(avail, graph_x_start, cur) ==
    avail - (graph_x_start - cur.x)

\* lines 257-258
GraphWidth(avail, graph_x_start, cur) ==
    LET graph_width == avail - (graph_x_start - cur.x)
    IN  IF graph_width < MinGraphWidth * Unit
        THEN MinGraphWidth * Unit ELSE graph_width

\* mutation: the trim leaves one entry too many
EraseCountOffByOne(size, graph_width) ==
    IF size > ToSizeT(graph_width) + 1
    THEN size - ToSizeT(graph_width) - 1 ELSE 0

\* mutation: the trim pops a single entry
EraseCountOne(size, graph_width) ==
    IF size > ToSizeT(graph_width) THEN 1 ELSE 0

\* how many entries line 261 erases from the front (0 when line 260 is false)
EraseCount(size, graph_width) ==
    IF size > ToSizeT(graph_width) THEN size - ToSizeT(graph_width) ELSE 0

\* mutation: the newest entries are erased instead of the oldest
EraseBack(data, k) == SubSeq(data, 1, Len(data) - k)

\* wave_data.erase(begin, begin + k)
EraseFront(data, k) == SubSeq(data, k + 1, Len(data))

\* wave_data.push_back(plot_y)
PushBack(data, plot_y) == Append(data, plot_y)

\* lines 260-262
AppendSample(data, plot_y, graph_width) ==
    PushBack(EraseFront(data, EraseCount(Len(data), graph_width)), plot_y)

\* mutation: the x offset is one too large
PointXOffByOne(graph_x_start, size, i) == graph_x_start + (size - i) * Unit

\* line 270 (i is the 0-based index of the loop)
PointX(graph_x_start, size, i) == graph_x_start + (size - 1 - i) * Unit

\* the segment drawn at line 274 for index i
Segment(data, graph_x_start, i) ==
    [x1 |-> PointX(graph_x_start, Len(data), i), y1 |-> data[i + 1],
     x2 |-> PointX(graph_x_start, Len(data), i + 1), y2 |-> data[i + 2]]

\* lines 266-276: the AddLine calls of the waveform, in order
WaveLines(data, graph_x_start) ==
    IF Len(data) > 1
    THEN [k \in 1..(Len(data) - 1) |-> Segment(data, graph_x_start, k - 1)]
    ELSE <<>>

-----------------------------------------------------------------------------
(* Frames *)

Origin == [x |-> 0, y |-> 0]

\* the locals of a frame whose circle-window block did not run
NoFrame ==
    [shown |-> FALSE, evaluated |-> FALSE, func |-> 0,
     center |-> Origin, base_radius |-> 0, circles |-> <<>>,
     current_pos |-> Origin, last_circle_center |-> Origin, max_extent |-> 0,
     dx |-> 0, dy |-> 0, val |-> 0, div0 |-> FALSE, plot_y |-> 0,
     graph_x_start |-> 0, graph_width |-> 0, before |-> <<>>, erased |-> 0,
     wave_lines |-> <<>>]

\* lines 192-276 with the widget values s, n, f of this frame
CircleBlock(s, n, f, t, avail, cur, data) ==
    LET center == Center(cur, s)
        base_radius == BaseRadius(s)
        chain == Epicycles(center, n, base_radius, t)
        dx == chain.current_pos.x - center.x
        dy == chain.current_pos.y - center.y
        ev == Evaluate(f, dx, dy, base_radius)
        val == Clamp(ev.val)
        plot_y == center.y + val
        graph_x_start == GraphXStart(center, chain.max_extent, s)
        graph_width == GraphWidth(avail, graph_x_start, cur)
        after == AppendSample(data, plot_y, graph_width)
    IN  [shown |-> TRUE, evaluated |-> TRUE, func |-> f,
         center |-> center, base_radius |-> base_radius,
         circles |-> chain.circles, current_pos |-> chain.current_pos,
         last_circle_center |-> chain.last_circle_center,
         max_extent |-> chain.max_extent,
         dx |-> dx, dy |-> dy, val |-> val, div0 |-> ev.div0, plot_y |-> plot_y,
         graph_x_start |-> graph_x_start, graph_width |-> graph_width,
         before |-> data, erased |-> EraseCount(Len(data), graph_width),
         wave_lines |-> WaveLines(after, graph_x_start)]

Scales == {500, 1000, 2000}
Circles == 1..MaxCircles
Funcs == 0..5
Widths == {100000, 262900, 400000}
Cursors == {[x |-> 8000, y |-> 27000]}

B2N(b) == IF b THEN 1 ELSE 0

Init ==
    /\ show_circle_window = FALSE
    /\ scale = 1000
    /\ num_circles = 2
    /\ func_type = 0
    /\ wave_data = <<>>
    /\ time = 0
    /\ avail_width \in Widths
    /\ cursor \in Cursors
    /\ edits = 0
    /\ frame = NoFrame

\* the interactions a frame's inputs amount to
EditCount(click, close, s, n, f, w) ==
    B2N(click) + B2N(close) + B2N(s /= scale) + B2N(n /= num_circles)
        + B2N(f /= func_type) + B2N(w /= avail_width)

\* at most one interaction per frame, at most limit per run
Budget(limit, count) == count <= 1 /\ edits + count <= limit

\* mutation: wave_data is emptied by a frame that does not show the window
FrameHiddenClears(limit, click, w) ==
    /\ time < MaxTime
    /\ (show_circle_window /= click) = FALSE
    /\ Budget(limit, EditCount(click, FALSE, scale, num_circles, func_type, w))
    /\ edits' = edits + EditCount(click, FALSE, scale, num_circles, func_type, w)
    /\ show_circle_window' = FALSE
    /\ avail_width' = w
    /\ time' = time + 1
    /\ frame' = NoFrame
    /\ wave_data' = <<>>
    /\ UNCHANGED <<scale, num_circles, func_type, cursor>>

\* A frame in which the block at line 177 is skipped. click: the "Circle
\* Window" checkbox (line 153) was clicked; w: the content width of this frame.
FrameHidden(limit, click, w) ==
    /\ time < MaxTime
    /\ (show_circle_window /= click) = FALSE
    /\ Budget(limit, EditCount(click, FALSE, scale, num_circles, func_type, w))
    /\ edits' = edits + EditCount(click, FALSE, scale, num_circles, func_type, w)
    /\ show_circle_window' = FALSE
    /\ avail_width' = w
    /\ time' = time + 1
    /\ frame' = NoFrame
    /\ UNCHANGED <<scale, num_circles, func_type, wave_data, cursor>>

\* A frame in which the block at lines 177-283 runs. close: the window's close
\* box (line 179) or "Close Me" (line 280) was clicked; s, n, f: the values the
\* widgets at lines 182-186 leave in scale, num_circles, func_type.
FrameShown(limit, click, close, s, n, f, w) ==
    /\ time < MaxTime
    /\ (show_circle_window /= click) = TRUE
    /\ Budget(limit, EditCount(click, close, s, n, f, w))
    /\ edits' = edits + EditCount(click, close, s, n, f, w)
    /\ scale' = s
    /\ num_circles' = n
    /\ func_type' = f
    /\ avail_width' = w
    /\ frame' = CircleBlock(s, n, f, time, w, cursor, wave_data)
    /\ wave_data' = AppendSample(wave_data, frame'.plot_y, frame'.graph_width)
    /\ show_circle_window' = ~close
    /\ time' = time + 1
    /\ UNCHANGED cursor

\* the frame's inputs when the user touches nothing
Quiet ==
    [click |-> FALSE, close |-> FALSE, s |-> scale, n |-> num_circles,
     f |-> func_type, w |-> avail_width]

\* the inputs of a frame: the user acts on at most one widget, or resizes
Inputs ==
    {[Quiet EXCEPT !.click = TRUE], [Quiet EXCEPT !.close = TRUE]}
        \cup {[Quiet EXCEPT !.s = v] : v \in Scales}
        \cup {[Quiet EXCEPT !.n = v] : v \in Circles}
        \cup {[Quiet EXCEPT !.f = v] : v \in Funcs}
        \cup {[Quiet EXCEPT !.w = v] : v \in Widths}

Next ==
    \/ \E in \in Inputs : FrameHidden(MaxEdits, in.click, in.w)
    \/ \E in \in Inputs :
          FrameShown(MaxEdits, in.click, in.close, in.s, in.n, in.f, in.w)

Spec == Init /\ [][Next]_vars

-----------------------------------------------------------------------------
(* Runs in which the user only shows and hides the window *)

ShowInputs == {Quiet, [Quiet EXCEPT !.click = TRUE], [Quiet EXCEPT !.close = TRUE]}

NextShow ==
    \/ \E in \in ShowInputs : FrameHidden(MaxToggles, in.click, in.w)
    \/ \E in \in ShowInputs :
          FrameShown(MaxToggles, in.click, in.close, in.s, in.n, in.f, in.w)

SpecShow == Init /\ [][NextShow]_vars

-----------------------------------------------------------------------------
(* The plotted value as a function of the tip offset: lines 233-249 applied *)
(* to offsets and base radii drawn from bounded sets                        *)

Offsets == {-150000, -5000, -2, -1, 0, 1, 2, 5000, 150000}

InitEval ==
    /\ show_circle_window = TRUE
    /\ scale \in Scales
    /\ num_circles = 2
    /\ func_type \in Funcs
    /\ wave_data = <<>>
    /\ time = 0
    /\ avail_width = 400000
    /\ cursor \in Cursors
    /\ edits = 0
    /\ \E dx \in Offsets, dy \in Offsets :
          frame = [NoFrame EXCEPT !.func = func_type, !.dx = dx, !.dy = dy,
                                  !.base_radius = BaseRadius(scale)]

\* lines 238-249 on the offset held in frame
EvalStep ==
    /\ ~frame.evaluated
    /\ LET ev == Evaluate(frame.func, frame.dx, frame.dy, frame.base_radius)
       IN  frame' = [frame EXCEPT !.evaluated = TRUE, !.val = Clamp(ev.val),
                                  !.div0 = ev.div0]
    /\ UNCHANGED <<show_circle_window, scale, num_circles, func_type,
                   wave_data, time, avail_width, cursor, edits>>

NextEval == EvalStep

SpecEval == InitEval /\ [][NextEval]_vars

-----------------------------------------------------------------------------
(* Properties *)

\* the bound (size_t)graph_width of the last frame
MaxLength == ToSizeT(frame.graph_width)

\* C1 as stated: after every append the buffer holds at most maxLength entries.
C1_AtMostMaxLength ==
    frame.shown => Len(wave_data) <= MaxLength

\* C1 amended: after every append the buffer holds at most maxLength + 1
\* entries (the buffer is trimmed to maxLength before the new sample is pushed).
C1_AtMostMaxLengthPlusOne ==
    frame.shown => Len(wave_data) <= MaxLength + 1

C1_Witness ==
    frame.shown /\ frame.erased > 0 /\ Len(wave_data) = MaxLength + 1

\* C2 as stated: appending to a buffer whose length equals maxLength removes
\* exactly the front element and pushes the sample, the length staying the same.
C2_FullBufferDropsOne ==
    (frame.shown /\ Len(frame.before) = MaxLength)
        => /\ frame.erased = 1
           /\ Len(wave_data) = Len(frame.before)
           /\ wave_data = Append(Tail(frame.before), frame.plot_y)

\* C2 amended: appending to a buffer whose length equals maxLength + 1 removes
\* exactly the front element and pushes the sample at the back, so the length
\* is unchanged and the other elements keep their order; at length maxLength
\* nothing is removed and the length grows by one.
C2_OverfullBufferDropsOne ==
    /\ (frame.shown /\ Len(frame.before) = MaxLength + 1)
          => /\ frame.erased = 1
             /\ Len(wave_data) = Len(frame.before)
             /\ wave_data = Append(Tail(frame.before), frame.plot_y)
    /\ (frame.shown /\ Len(frame.before) = MaxLength)
          => /\ frame.erased = 0
             /\ wave_data = Append(frame.before, frame.plot_y)

C2_Witness ==
    /\ frame.shown
    /\ Len(frame.before) = MaxLength + 1
    /\ frame.before[1] /= frame.before[Len(frame.before)]
    /\ frame.before[1] /= frame.before[2]

\* C3 as stated: an append to a buffer longer than the (shrunk) maxLength
\* erases no more than it holds, ends with the new sample and leaves exactly
\* maxLength entries.
C3_ShrinkToMaxLength ==
    (frame.shown /\ Len(frame.before) > MaxLength)
        => /\ frame.erased <= Len(frame.before)
           /\ wave_data[Len(wave_data)] = frame.plot_y
           /\ Len(wave_data) = MaxLength

\* C3 amended: such an append erases Len - maxLength entries from the front
\* (never more than are held), keeps the newest maxLength old entries in
\* order, puts the new sample at the back and leaves maxLength + 1 entries.
C3_ShrinkToMaxLengthPlusOne ==
    (frame.shown /\ Len(frame.before) > MaxLength)
        => /\ frame.erased = Len(frame.before) - MaxLength
           /\ frame.erased <= Len(frame.before)
           /\ wave_data[Len(wave_data)] = frame.plot_y
           /\ Len(wave_data) = MaxLength + 1
           /\ SubSeq(wave_data, 1, MaxLength)
                = SubSeq(frame.before, frame.erased + 1, Len(frame.before))

C3_Witness ==
    frame.shown /\ frame.erased >= 2 /\ MaxLength = MinGraphWidth

\* C4: for every selector and offset the value is defined, no division by
\* zero is executed and the value lies in [-4000, 4000].
C4_ValueDefinedAndClamped ==
    frame.evaluated
        => /\ ~frame.div0
           /\ frame.val /= NaN
           /\ frame.val >= -(4000 * Unit)
           /\ frame.val <= 4000 * Unit

C4_Witness ==
    frame.evaluated /\ frame.func = 3 /\ frame.dx = 0 /\ frame.dy = 2
        /\ frame.val = 4000 * Unit

\* C5: inside the pole window (|dx| <= 0.001 for Tan and Sec, |dy| <= 0.001
\* for Csc and Cot) the value is exactly +2000 or -2000 after the clamp,
\* +2000 when the deciding component (dy for Tan and Csc, dx for Sec and Cot)
\* is positive and -2000 when it is negative.
C5_PoleGuard ==
    LET guarded == IF frame.func \in {2, 4} THEN frame.dx ELSE frame.dy
        deciding == IF frame.func \in {2, 3} THEN frame.dy ELSE frame.dx
    IN  (frame.evaluated /\ frame.func \in 2..5 /\ Abs(guarded) <= 1)
            => /\ frame.val \in {2000 * Unit, -(2000 * Unit)}
               /\ deciding > 0 => frame.val = 2000 * Unit
               /\ deciding < 0 => frame.val = -(2000 * Unit)

C5_Witness ==
    frame.evaluated /\ frame.func = 2 /\ frame.dx = 1 /\ frame.dy = 5000
        /\ frame.val = 2000 * Unit

\* C6: the loop draws num_circles circles, the first centred at center, each
\* later one centred at the previous circle's tip; current_pos is the last
\* circle's tip and last_circle_center the last circle's centre.
C6_ChainLinked ==
    frame.shown
        => /\ Len(frame.circles) = num_circles
           /\ frame.circles[1].center = frame.center
           /\ \A i \in 2..Len(frame.circles) :
                 frame.circles[i].center = frame.circles[i - 1].tip
           /\ frame.current_pos = frame.circles[Len(frame.circles)].tip
           /\ frame.last_circle_center = frame.circles[Len(frame.circles)].center

C6_Witness ==
    /\ frame.shown
    /\ Len(frame.circles) >= 2
    /\ frame.circles[2].center /= frame.circles[1].center
    /\ frame.last_circle_center /= frame.center

\* the points the AddLine calls of lines 266-276 join, in drawing order
WavePoints(lines) ==
    IF lines = <<>> THEN <<>>
    ELSE <<[x |-> lines[1].x1, y |-> lines[1].y1]>>
            \o [k \in 1..Len(lines) |-> [x |-> lines[k].x2, y |-> lines[k].y2]]

\* C7 as stated: for every buffer length >= 1 the polyline has one point per
\* buffered sample.
C7_OnePointPerSample ==
    frame.shown => Len(WavePoints(frame.wave_lines)) = Len(wave_data)

\* C7 amended: for every buffer length >= 2 the drawn segments join one point
\* per buffered sample, sample i at x = graph_x_start + (length - 1 - i), so
\* consecutive x differ by exactly 1, x decreases with the index and the
\* newest sample is at graph_x_start; with a single sample nothing is drawn.
C7_OnePointPerSampleFromTwo ==
    LET pts == WavePoints(frame.wave_lines)
        size == Len(wave_data)
    IN  frame.shown
            => /\ size = 1 => frame.wave_lines = <<>>
               /\ size >= 2 =>
                    /\ Len(pts) = size
                    /\ \A k \in 1..(Len(frame.wave_lines) - 1) :
                          /\ frame.wave_lines[k].x2 = frame.wave_lines[k + 1].x1
                          /\ frame.wave_lines[k].y2 = frame.wave_lines[k + 1].y1
                    /\ \A k \in 1..size :
                          /\ pts[k].x = frame.graph_x_start + (size - k) * Unit
                          /\ pts[k].y = wave_data[k]
                    /\ \A k \in 1..(size - 1) : pts[k].x - pts[k + 1].x = Unit
                    /\ pts[size].x = frame.graph_x_start

C7_Witness ==
    frame.shown /\ Len(wave_data) >= 3 /\ Len(frame.wave_lines) = Len(wave_data) - 1

\* C8: the width used as the buffer bound is recomputed each frame from the
\* available width and is at least 10, also when the raw width is negative.
C8_WidthAtLeastTen ==
    LET raw == avail_width - (frame.graph_x_start - cursor.x)
    IN  frame.shown
            => /\ frame.graph_width >= 10 * Unit
               /\ MaxLength >= 10
               /\ raw >= 10 * Unit => frame.graph_width = raw

C8_Witness ==
    /\ frame.shown
    /\ avail_width - (frame.graph_x_start - cursor.x) < 0
    /\ frame.graph_width = 10 * Unit

\* C9: the radii are base_radius * 4 / ((2i+1) * pi) for i = 0, 1, 2, ... and
\* strictly decrease with the circle index.
C9_RadiiDecrease ==
    frame.shown
        => /\ \A k \in 1..Len(frame.circles) :
                 frame.circles[k].radius
                    = FMul(frame.base_radius,
                           FDiv(4 * Unit, FMul((2 * (k - 1) + 1) * Unit, 3142)))
           /\ \A k \in 1..(Len(frame.circles) - 1) :
                 frame.circles[k + 1].radius < frame.circles[k].radius

C9_Witness ==
    frame.shown /\ Len(frame.circles) >= 2 /\ frame.base_radius = 30 * Unit

====
